---------------------------- MODULE Spec2Model ----------------------------
(*
  A model of the tech-firm-enrichment service.

    Spec         DetectorService: start-up (loadFingerprints) followed by
                 detect() calls, one request after another, with
                 processImplications unrolled one pass of its while loop per
                 step.
    SpecCrawler  EnrichmentService.enrich over CrawlerService: concurrent
                 requests sharing the lazily launched browser, one step per
                 synchronous run between awaits.
    SpecController    EnrichmentController.enrich: one POST /enrich request
                      from its body to its answer.
    SpecNeedsBrowser  CrawlerService.needsBrowser as a function of the page.
    SpecNormalizer    NormalizerService.normalize as a function of the list.

  In Spec enrich() hands the detections of each request to normalize.

  Strings that the code inspects (patterns, header names, values, cookie
  strings) are sequences of one-character strings; names that are only
  compared for equality (technology names, category ids) are TLA+ strings.
*)
EXTENDS Integers, Sequences, FiniteSets, TLC

VARIABLES
    \* ---- DetectorService
    payload,       \* content of fingerprints/technologies.json
    database,      \* this.database
    dpc,           \* where the detector is: boot, ready, implications, ...
    crawlResult,   \* the CrawlResult handed to detect()
    detections,    \* the Map<string, Detection> of detect(), in insertion order
    changed,       \* the loop variable of processImplications
    passes,        \* iterations of processImplications' while loop so far
    \* ---- CrawlerService
    browser,       \* this.browser: 0 is null, r > 0 the browser request r launched
    launched,      \* the browsers chromium.launch() was called for so far
    closedBrowsers,\* the browsers that onModuleDestroy closed
    contexts,      \* per request: the browser context its newContext call created
    req,           \* per request: the position of its crawl() call and its locals
    destroyed,     \* onModuleDestroy has run
    \* ---- CrawlerService.needsBrowser, called on its own
    page,          \* the html argument
    verdict,       \* "pending" before the call, then "true" or "false"
    \* ---- NormalizerService.normalize
    rawDetections, \* the Detection[] handed to normalize
    normalized     \* the NormalizedResult, once normalize has returned

detectorVars == <<payload, database, dpc, crawlResult, detections, changed, passes>>
crawlerVars == <<browser, launched, closedBrowsers, contexts, req, destroyed>>
vars == <<detectorVars, crawlerVars, page, verdict, rawDetections, normalized>>

\* What the steps of one service leave alone of the others.
nonCrawlerVars == <<detectorVars, page, verdict, rawDetections, normalized>>
nonDetectorVars == <<crawlerVars, page, verdict, rawDetections, normalized>>

-----------------------------------------------------------------------------
(* Bounds *)

MaxKinds == 2      \* evidence kinds one rule of the evidence family declares
MaxEdges == 3      \* implication edges in one store
MaxRequests == 2   \* concurrent crawl() calls
MaxSegments == 3   \* pieces of markup or text in one page given to needsBrowser
MaxDetections == 3 \* detections of mixed categories in one call of normalize
MaxScores == 5     \* detections of one category in one call of normalize

-----------------------------------------------------------------------------
(* Strings *)

\* The characters of the model's strings in the order of their UTF-16 code
\* units.
CodeUnits ==
    <<"\t", "\n", " ", "0", "1", "2", "3", "4", "5", "6", "7", "8", "9",
      "A", "B", "C", "D", "E", "F", "G", "H", "I", "J", "K", "L", "M",
      "N", "O", "P", "Q", "R", "S", "T", "U", "V", "W", "X", "Y", "Z", "_",
      "a", "b", "c", "d", "e", "f", "g", "h", "i", "j", "k", "l", "m",
      "n", "o", "p", "q", "r", "s", "t", "u", "v", "w", "x", "y", "z">>

\* The rank of a character's code unit.
CodeUnit == [c \in {CodeUnits[i] : i \in 1..Len(CodeUnits)} |->
                CHOOSE i \in 1..Len(CodeUnits) : CodeUnits[i] = c]

\* An upper-case letter becomes the lower-case letter of the same place in the
\* alphabet.
ToLowerChar(c) ==
    IF c \in DOMAIN CodeUnit /\ CodeUnit[c] \in CodeUnit["A"]..CodeUnit["Z"]
    THEN CodeUnits[CodeUnit[c] - CodeUnit["A"] + CodeUnit["a"]]
    ELSE c

ToLowerCase(s) == [i \in 1..Len(s) |-> ToLowerChar(s[i])]

\* Position of the first "=" in s, or Len(s) + 1 when there is none.
RECURSIVE IndexOfEq(_, _)
IndexOfEq(s, i) ==
    IF i > Len(s) THEN i
    ELSE IF s[i] = "=" THEN i
    ELSE IndexOfEq(s, i + 1)

\* cookieStr.split('=')[0]
CookieKey(cookieStr) == SubSeq(cookieStr, 1, IndexOfEq(cookieStr, 1) - 1)

\* cookieStr.split('=').slice(1).join('=')
CookieValue(cookieStr) ==
    SubSeq(cookieStr, IndexOfEq(cookieStr, 1) + 1, Len(cookieStr))

\* The string literal as the sequence of its characters.
Chars(str) ==
    CASE str = "A" -> <<"A">>
      [] str = "B" -> <<"B">>
      [] str = "C" -> <<"C">>
      [] str = "X" -> <<"X">>
      [] str = "CMS" -> <<"C", "M", "S">>
      [] str = "Web Servers" -> <<"W", "e", "b", " ", "S", "e", "r", "v", "e", "r", "s">>
      [] str = "WEB \tServers" ->
            <<"W", "E", "B", " ", "\t", "S", "e", "r", "v", "e", "r", "s">>
      [] str = "Miscellaneous" ->
            <<"M", "i", "s", "c", "e", "l", "l", "a", "n", "e", "o", "u", "s">>
      [] str = "10" -> <<"1", "0">>
      [] str = "2" -> <<"2">>
      [] str = "Nginx" -> <<"N", "g", "i", "n", "x">>
      [] str = "Apache" -> <<"A", "p", "a", "c", "h", "e">>
      [] str = "HubSpot" -> <<"H", "u", "b", "S", "p", "o", "t">>
      [] str = "Salesforce" -> <<"S", "a", "l", "e", "s", "f", "o", "r", "c", "e">>
      [] str = "caddy" -> <<"c", "a", "d", "d", "y">>
      [] str = "Zope" -> <<"Z", "o", "p", "e">>
      [] str = "server" -> <<"s", "e", "r", "v", "e", "r">>
      [] str = "marketing" -> <<"m", "a", "r", "k", "e", "t", "i", "n", "g">>
      [] str = "crm" -> <<"c", "r", "m">>
      [] str = "web_servers" -> <<"w", "e", "b", "_", "s", "e", "r", "v", "e", "r", "s">>

\* The characters \s matches.
WhitespaceChars == {" ", "\t", "\n"}

\* The first position from i on that holds no whitespace, or Len(s) + 1.
RECURSIVE SkipWhitespace(_, _)
SkipWhitespace(s, i) ==
    IF i > Len(s) THEN i
    ELSE IF s[i] \in WhitespaceChars THEN SkipWhitespace(s, i + 1)
    ELSE i

\* Every whitespace character becomes an underscore of its own.
RECURSIVE UnderscoreEach(_, _)
UnderscoreEach(s, i) ==
    IF i > Len(s) THEN <<>>
    ELSE <<IF s[i] \in WhitespaceChars THEN "_" ELSE s[i]>> \o UnderscoreEach(s, i + 1)

\* s.replace(/\s+/g, '_'), from position i on
RECURSIVE ReplaceWhitespaceRuns(_, _)
ReplaceWhitespaceRuns(s, i) ==
    IF i > Len(s) THEN <<>>
    ELSE IF s[i] \in WhitespaceChars
         THEN <<"_">> \o ReplaceWhitespaceRuns(s, SkipWhitespace(s, i))
         ELSE <<s[i]>> \o ReplaceWhitespaceRuns(s, i + 1)

\* a < b in the order of code units, as Array.prototype.sort compares strings
RECURSIVE StringLess(_, _)
StringLess(a, b) ==
    IF b = <<>> THEN FALSE
    ELSE IF a = <<>> THEN TRUE
    ELSE IF Head(a) = Head(b) THEN StringLess(Tail(a), Tail(b))
    ELSE CodeUnit[Head(a)] < CodeUnit[Head(b)]

\* list with x put before the first element that is greater than x
RECURSIVE InsertSorted(_, _)
InsertSorted(list, x) ==
    IF list = <<>> THEN <<x>>
    ELSE IF StringLess(x, Head(list)) THEN <<x>> \o list
    ELSE <<Head(list)>> \o InsertSorted(Tail(list), x)

\* The array as it is: no sorting.
SortSkipped(list) == list

\* list.sort() of an array of strings
RECURSIVE Sort(_)
Sort(list) ==
    IF list = <<>> THEN <<>>
    ELSE InsertSorted(Sort(SubSeq(list, 1, Len(list) - 1)), list[Len(list)])

-----------------------------------------------------------------------------
(* Regular expressions: literal patterns; an unclosed "(" does not compile. *)

RegExpCompiles(pattern) == \A i \in 1..Len(pattern) : pattern[i] # "("

\* new RegExp(pattern, 'i').test(value) for a pattern that compiles
RegExpMatches(pattern, value) ==
    \E k \in 0..(Len(value) - Len(pattern)) :
        \A j \in 1..Len(pattern) :
            ToLowerChar(value[k + j]) = ToLowerChar(pattern[j])

\* new RegExp(pattern, 'i').test(value): "true", "false" or "throw"
NewRegExpTest(pattern, value) ==
    IF ~RegExpCompiles(pattern) THEN "throw"
    ELSE IF RegExpMatches(pattern, value) THEN "true"
    ELSE "false"

\* The same with the exception escaping the try block.
TryTestUncaught(pattern, value) == NewRegExpTest(pattern, value)

\* try { if (new RegExp(pattern, 'i').test(value)) return true; } catch (e) { }
TryTest(pattern, value) ==
    IF NewRegExpTest(pattern, value) = "true" THEN "true" ELSE "false"

\* The outcome of a loop that returns true at the first "true", propagates the
\* first exception, and returns false when it runs out.
RECURSIVE FirstOutcome(_)
FirstOutcome(outs) ==
    IF outs = <<>> THEN "false"
    ELSE IF Head(outs) = "false" THEN FirstOutcome(Tail(outs))
    ELSE Head(outs)

RECURSIVE Flatten(_)
Flatten(seqs) == IF seqs = <<>> THEN <<>> ELSE Head(seqs) \o Flatten(Tail(seqs))

-----------------------------------------------------------------------------
(* Objects used as string-keyed maps: sequences of entries in key order.
   No key is the name of a member of Object.prototype, so obj[key] finds own
   properties only. *)

\* obj[key] !== undefined
HasOwn(obj, key) == \E i \in 1..Len(obj) : obj[i].key = key

\* obj[key]
Get(obj, key) == obj[CHOOSE i \in 1..Len(obj) : obj[i].key = key].value

Entry(k, v) == [key |-> k, value |-> v]

-----------------------------------------------------------------------------
(* DetectorService: evidence matching *)

\* if (value): defined and not the empty string
Truthy(obj, key) == HasOwn(obj, key) /\ Get(obj, key) # <<>>

\* Array.isArray(patterns) ? patterns : (typeof patterns === 'string' ? [patterns] : [])
PatternArray(patterns) ==
    IF patterns.type \in {"array", "string"} THEN patterns.items ELSE <<>>

\* Array.isArray(pattern) ? pattern : [pattern]
PatList(pattern) == pattern.items

\* if (tech.scripts), if (tech.html): absent and "" are falsy
PatternsTruthy(patterns) ==
    /\ patterns.type # "undefined"
    /\ ~(patterns.type = "string" /\ patterns.items = << <<>> >>)

MatchHeaders(patterns, headers) ==
    FirstOutcome([i \in 1..Len(patterns) |->
        IF Truthy(headers, ToLowerCase(patterns[i].key))
        THEN TryTest(patterns[i].value, Get(headers, ToLowerCase(patterns[i].key)))
        ELSE "false"])

MatchCookies(patterns, cookies) ==
    FirstOutcome([i \in 1..Len(cookies) |->
        IF HasOwn(patterns, CookieKey(cookies[i]))
        THEN IF Get(patterns, CookieKey(cookies[i])) = <<>>
             THEN "true"
             ELSE TryTest(Get(patterns, CookieKey(cookies[i])), CookieValue(cookies[i]))
        ELSE "false"])

MatchScripts(patterns, scripts) ==
    FirstOutcome(Flatten([i \in 1..Len(PatternArray(patterns)) |->
        [j \in 1..Len(scripts) |-> TryTest(PatternArray(patterns)[i], scripts[j])]]))

MatchHtml(patterns, html) ==
    FirstOutcome([i \in 1..Len(PatternArray(patterns)) |->
        TryTest(PatternArray(patterns)[i], html)])

MatchMeta(patterns, meta) ==
    FirstOutcome(Flatten([i \in 1..Len(patterns) |->
        IF Truthy(meta, ToLowerCase(patterns[i].key))
        THEN [j \in 1..Len(PatList(patterns[i].value)) |->
                TryTest(PatList(patterns[i].value)[j],
                        Get(meta, ToLowerCase(patterns[i].key)))]
        ELSE <<>>]))

\* The evidence kinds of detect()'s loop body, in the order it tries them.
KindOrderCookieFirst == <<"cookie", "header", "script", "html", "meta">>

KindOrder == <<"header", "cookie", "script", "html", "meta">>

\* if (tech.<kind>)
KindDeclared(tech, kind) ==
    CASE kind = "header" -> tech.headers.defined
      [] kind = "cookie" -> tech.cookies.defined
      [] kind = "script" -> PatternsTruthy(tech.scripts)
      [] kind = "html" -> PatternsTruthy(tech.html)
      [] kind = "meta" -> tech.meta.defined

\* this.match<Kind>(tech.<kind>, crawlResult.<kind>)
MatchKind(tech, cr, kind) ==
    CASE kind = "header" -> MatchHeaders(tech.headers.entries, cr.headers)
      [] kind = "cookie" -> MatchCookies(tech.cookies.entries, cr.cookies)
      [] kind = "script" -> MatchScripts(tech.scripts, cr.scripts)
      [] kind = "html" -> MatchHtml(tech.html, cr.html)
      [] kind = "meta" -> MatchMeta(tech.meta.entries, cr.meta)

\* One iteration of detect()'s for loop, up to the addDetection call: the
\* source of the first kind that matches, "none", or "throw".
RECURSIVE FirstKindFrom(_, _, _, _)
FirstKindFrom(tech, cr, order, i) ==
    IF i > Len(order) THEN "none"
    ELSE IF ~KindDeclared(tech, order[i]) THEN FirstKindFrom(tech, cr, order, i + 1)
    ELSE LET r == MatchKind(tech, cr, order[i])
         IN  IF r = "true" THEN order[i]
             ELSE IF r = "throw" THEN "throw"
             ELSE FirstKindFrom(tech, cr, order, i + 1)

FirstKind(tech, cr) == FirstKindFrom(tech, cr, KindOrder, 1)

-----------------------------------------------------------------------------
(* DetectorService: the detections map *)

\* detections.has(name)
MapHas(map, name) == \E i \in 1..Len(map) : map[i].name = name

\* detections.set(name, det): a present key keeps its position
MapSet(map, name, det) ==
    IF MapHas(map, name)
    THEN [i \in 1..Len(map) |-> IF map[i].name = name THEN det ELSE map[i]]
    ELSE Append(map, det)

Names(map) == {map[i].name : i \in 1..Len(map)}

\* parseInt(catId)
ParseInt(catId) ==
    CASE catId = "1" -> 1
      [] catId = "22" -> 22
      [] catId = "99" -> 99

\* The last of the rule's category ids is taken.
CatIdLast(tech) == IF Len(tech.cats) > 0 THEN tech.cats[Len(tech.cats)] ELSE "1"

\* tech.cats?.[0] || "1"
CatId(tech) == IF Len(tech.cats) > 0 THEN tech.cats[1] ELSE "1"

\* this.database.categories[catId]?.name || 'Miscellaneous'
CategoryName(db, catId) ==
    IF HasOwn(db.categories, catId) THEN Get(db.categories, catId).name
    ELSE "Miscellaneous"

\* addDetection throws a TypeError reading this.database.categories[catId]
\* when the store has no categories.
AddDetectionThrows(db, map, name) ==
    ~MapHas(map, name) /\ "categories" \notin db.keys

AddDetection(db, map, name, tech, confidence, source) ==
    IF MapHas(map, name) THEN map
    ELSE MapSet(map, name,
                [name |-> name, category |-> CategoryName(db, CatId(tech)),
                 categoryId |-> ParseInt(CatId(tech)), confidence |-> confidence,
                 source |-> source])

\* detect()'s for loop over Object.entries(this.database.technologies),
\* from entry i on: the map it builds, and whether it threw.
RECURSIVE ScanTechnologies(_, _, _, _)
ScanTechnologies(db, cr, acc, i) ==
    IF acc.threw \/ i > Len(db.technologies) THEN acc
    ELSE LET techName == db.technologies[i].key
             tech == db.technologies[i].value
             kind == FirstKind(tech, cr)
         IN  IF kind = "none" THEN ScanTechnologies(db, cr, acc, i + 1)
             ELSE IF kind = "throw" THEN [acc EXCEPT !.threw = TRUE, !.error = "SyntaxError"]
             ELSE IF AddDetectionThrows(db, acc.map, techName)
                  THEN [acc EXCEPT !.threw = TRUE, !.error = "TypeError"]
             ELSE ScanTechnologies(db, cr,
                     [acc EXCEPT !.map = AddDetection(db, acc.map, techName, tech, 1, kind)],
                     i + 1)

-----------------------------------------------------------------------------
(* DetectorService: processImplications *)

\* Array.isArray(tech.implies) ? tech.implies : [tech.implies]
ImpliesFirstOnly(tech) ==
    IF tech.implies.items = <<>> THEN <<>> ELSE <<Head(tech.implies.items)>>

ImpliesOf(tech) == tech.implies.items

\* The body of the loop over the implied names, with "changed = true" placed
\* after the if (!detections.has(impliedName)) block instead of inside it.
ImplyOneAlwaysChanged(db, acc, impliedName) ==
    IF ~HasOwn(db.technologies, impliedName) THEN acc
    ELSE IF AddDetectionThrows(db, acc.map, impliedName)
         THEN [acc EXCEPT !.threw = TRUE, !.error = "TypeError"]
    ELSE [acc EXCEPT
            !.map = AddDetection(db, acc.map, impliedName,
                                 Get(db.technologies, impliedName), 1, "implied"),
            !.changed = TRUE]

\* The same body appending to a list without looking the name up first.
ImplyOnePush(db, acc, impliedName) ==
    IF ~HasOwn(db.technologies, impliedName) THEN acc
    ELSE [acc EXCEPT
            !.map = Append(acc.map,
                           [name |-> impliedName,
                            category |-> CategoryName(db, CatId(Get(db.technologies, impliedName))),
                            categoryId |-> ParseInt(CatId(Get(db.technologies, impliedName))),
                            confidence |-> 1, source |-> "implied"]),
            !.changed = acc.changed \/ ~MapHas(acc.map, impliedName)]

\* The same body setting the implied detection over one already present.
ImplyOneOverwrites(db, acc, impliedName) ==
    IF ~HasOwn(db.technologies, impliedName) THEN acc
    ELSE [acc EXCEPT
            !.map = MapSet(acc.map, impliedName,
                           [name |-> impliedName,
                            category |-> CategoryName(db, CatId(Get(db.technologies, impliedName))),
                            categoryId |-> ParseInt(CatId(Get(db.technologies, impliedName))),
                            confidence |-> 1, source |-> "implied"]),
            !.changed = acc.changed \/ ~MapHas(acc.map, impliedName)]

\* The body of the loop over the implied names of one detection.
ImplyOne(db, acc, impliedName) ==
    IF MapHas(acc.map, impliedName) THEN acc
    ELSE IF ~HasOwn(db.technologies, impliedName) THEN acc
    ELSE IF AddDetectionThrows(db, acc.map, impliedName)
         THEN [acc EXCEPT !.threw = TRUE, !.error = "TypeError"]
    ELSE [acc EXCEPT
            !.map = AddDetection(db, acc.map, impliedName,
                                 Get(db.technologies, impliedName), 1, "implied"),
            !.changed = TRUE]

RECURSIVE ImplyEach(_, _, _, _)
ImplyEach(db, acc, implies, j) ==
    IF acc.threw \/ j > Len(implies) THEN acc
    ELSE ImplyEach(db, ImplyOne(db, acc, implies[j]), implies, j + 1)

\* for (const det of Array.from(detections.values())) { ... }, from element i
\* of the copy taken when the pass began.
RECURSIVE ImplicationScan(_, _, _, _)
ImplicationScan(db, acc, values, i) ==
    IF acc.threw \/ i > Len(values) THEN acc
    ELSE IF /\ HasOwn(db.technologies, values[i].name)
            /\ Get(db.technologies, values[i].name).implies.type # "undefined"
         THEN ImplicationScan(db,
                ImplyEach(db, acc, ImpliesOf(Get(db.technologies, values[i].name)), 1),
                values, i + 1)
         ELSE ImplicationScan(db, acc, values, i + 1)

\* One iteration of the while loop: changed = false, then the scan.
ImplicationPass(db, map) ==
    ImplicationScan(db, [map |-> map, changed |-> FALSE, threw |-> FALSE, error |-> "none"],
                    map, 1)

\* An if in place of the while: the loop body runs once.
LoopRunsOnce(isChanged, n) == isChanged /\ n < 1

\* while (changed), entered for the (n+1)-th time
LoopContinues(isChanged, n) == isChanged

\* processImplications run to completion on a map, n passes already made.
RECURSIVE ProcessImplicationsFrom(_, _, _, _)
ProcessImplicationsFrom(db, map, isChanged, n) ==
    IF ~LoopContinues(isChanged, n) THEN map
    ELSE LET r == ImplicationPass(db, map)
         IN  ProcessImplicationsFrom(db, r.map, r.changed, n + 1)

ProcessImplications(db, map) == ProcessImplicationsFrom(db, map, TRUE, 0)

-----------------------------------------------------------------------------
(* Fingerprint payloads and page snapshots the detector is run on *)

NoPatterns == [type |-> "undefined", items |-> <<>>]
Str(p) == [type |-> "string", items |-> <<p>>]
Arr(ps) == [type |-> "array", items |-> ps]
Obj == [type |-> "object", items |-> <<>>]
NoMap == [defined |-> FALSE, entries |-> <<>>]
MapOf(es) == [defined |-> TRUE, entries |-> es]

Techs == {"A", "B", "C"}
ImpliedNames == {"A", "B", "C", "X"}     \* "X" has no rule in any store
NameOrder == <<"A", "B", "C", "X">>

\* The names of S as a list.
SetToSeq(S) ==
    LET F[i \in 0..Len(NameOrder)] ==
            IF i = 0 THEN <<>>
            ELSE IF NameOrder[i] \in S THEN Append(F[i - 1], NameOrder[i])
            ELSE F[i - 1]
    IN  F[Len(NameOrder)]

\* An "implies" field for the set S of implied names.
ImpliesField(S, singleAsString) ==
    IF S = {} THEN [type |-> "undefined", items |-> <<>>]
    ELSE IF Cardinality(S) = 1 /\ singleAsString THEN [type |-> "string", items |-> SetToSeq(S)]
    ELSE [type |-> "array", items |-> SetToSeq(S)]

Categories == << Entry("1", [name |-> "CMS"]), Entry("22", [name |-> "Web Servers"]) >>

CatsOf(t) ==
    CASE t = "A" -> <<"22", "1">>
      [] t = "B" -> <<"99">>
      [] t = "C" -> <<>>

LetterOf(t) ==
    CASE t = "A" -> <<"a">>
      [] t = "B" -> <<"b">>
      [] t = "C" -> <<"c">>

\* A rule that matches on its technology's letter in the HTML.
LetterRule(t, implies) ==
    [cats |-> CatsOf(t), headers |-> NoMap, cookies |-> NoMap, scripts |-> NoPatterns,
     html |-> Str(LetterOf(t)), meta |-> NoMap, implies |-> implies]

TechOrders == { <<"A", "B", "C">>, <<"C", "B", "A">> }

EdgeCount(g) == Cardinality({e \in Techs \X ImpliedNames : e[2] \in g[e[1]]})

\* Stores whose rules imply each other: every graph of at most MaxEdges edges.
ImplicationStores ==
    { [kind |-> "object", keys |-> {"technologies", "categories"},
       technologies |-> [i \in 1..3 |->
            Entry(order[i], LetterRule(order[i], ImpliesField(g[order[i]], single)))],
       categories |-> Categories] :
      g \in {h \in [Techs -> SUBSET ImpliedNames] : EdgeCount(h) <= MaxEdges},
      order \in TechOrders, single \in BOOLEAN }

KeySv == <<"S", "v">>
KeyXg == <<"X", "g">>
KeySid == <<"s", "i", "d">>
KeyGn == <<"G", "n">>
PatEmpty == <<>>
PatA == <<"a">>
PatBad == <<"(">>

HeaderOptions ==
    { <<Entry(KeySv, PatEmpty)>>, <<Entry(KeySv, PatA)>>, <<Entry(KeySv, PatBad)>>,
      <<Entry(KeyXg, PatBad), Entry(KeySv, PatA)>> }
CookieOptions ==
    { <<Entry(KeySid, PatEmpty)>>, <<Entry(KeySid, PatA)>>, <<Entry(KeySid, PatBad)>> }
PatternOptions == { Str(PatA), Arr(<<PatBad, PatA>>), Obj }
MetaOptions ==
    { <<Entry(KeyGn, Str(PatEmpty))>>, <<Entry(KeyGn, Str(PatA))>>,
      <<Entry(KeyGn, Arr(<<PatBad, PatA>>))>> }

KindCount(r) ==
    Cardinality({k \in 1..5 : KindDeclared(r, KindOrder[k])})

\* Rules for technology "A" declaring at most MaxKinds kinds of evidence.
EvidenceRules ==
    { r \in [cats : {CatsOf("A")},
             headers : {NoMap} \cup {MapOf(h) : h \in HeaderOptions},
             cookies : {NoMap} \cup {MapOf(c) : c \in CookieOptions},
             scripts : {NoPatterns} \cup PatternOptions,
             html : {NoPatterns} \cup PatternOptions,
             meta : {NoMap} \cup {MapOf(m) : m \in MetaOptions},
             implies : {ImpliesField({}, FALSE)}] :
      KindCount(r) <= MaxKinds }

EvidenceStores ==
    { [kind |-> "object", keys |-> {"technologies", "categories"},
       technologies |-> << Entry("A", r), Entry("B", LetterRule("B", ImpliesField({}, FALSE))) >>,
       categories |-> Categories] : r \in EvidenceRules }

\* Stores with no "categories" key.
NoCategoriesStores ==
    { [kind |-> "object", keys |-> {"technologies"},
       technologies |-> [i \in 1..3 |->
            Entry(order[i], LetterRule(order[i], ImpliesField({}, FALSE)))],
       categories |-> <<>>] : order \in TechOrders }

\* Payloads that parse to something else than a store with technologies.
OtherValues ==
    { [kind |-> "null", keys |-> {}, technologies |-> <<>>, categories |-> <<>>],
      [kind |-> "object", keys |-> {}, technologies |-> <<>>, categories |-> <<>>],
      [kind |-> "object", keys |-> {"categories"}, technologies |-> <<>>,
       categories |-> Categories] }

Undefined == [kind |-> "undefined", keys |-> {}, technologies |-> <<>>, categories |-> <<>>]

Snapshot(headers, cookies, scripts, html, meta) ==
    [headers |-> headers, cookies |-> cookies, scripts |-> scripts, html |-> html,
     meta |-> meta]

\* Pages that differ in the letters their HTML holds.
LetterSnapshots ==
    { Snapshot(<<>>, <<>>, <<>>, html, <<>>) :
      html \in { <<>>, <<"a">>, <<"b">>, <<"c">>, <<"a", "b">>, <<"A", "c">>,
                 <<"b", "C">>, <<"a", "b", "c">> } }

\* Pages that differ in every kind of evidence.  Meta content is never empty
\* (fetchWithHttp and fetchWithBrowser keep a meta tag only if (name && content)).
EvidenceSnapshots ==
    { Snapshot(headers, cookies, scripts, html, meta) :
      headers \in { <<>>, <<Entry(<<"s", "v">>, <<>>)>>,
                    <<Entry(<<"x", "g">>, <<"b">>), Entry(<<"s", "v">>, <<"A">>)>> },
      cookies \in { <<>>, << <<"s", "i", "d">> >>, << <<"s", "i", "d", "=">> >>,
                    << <<"x", "=", "b">>, <<"s", "i", "d", "=", "A", "=", "b">> >> },
      scripts \in { <<>>, << <<"b">>, <<"A">> >> },
      html \in { <<"b">>, <<"A", "b">> },
      meta \in { <<>>, <<Entry(<<"g", "n">>, <<"A">>)>> } }

-----------------------------------------------------------------------------
(* DetectorService: the state machine *)

Payloads ==
    [parses : {TRUE}, value : ImplicationStores \cup EvidenceStores \cup NoCategoriesStores
                              \cup OtherValues]
    \cup {[parses |-> FALSE, value |-> Undefined]}

SnapshotsFor(p) ==
    IF p.value \in EvidenceStores THEN EvidenceSnapshots
    ELSE IF p.value \in ImplicationStores \cup NoCategoriesStores THEN LetterSnapshots
    ELSE {Snapshot(<<>>, <<>>, <<>>, <<"a">>, <<>>)}

DetectorInit ==
    /\ payload \in Payloads
    /\ crawlResult \in SnapshotsFor(payload)
    /\ database = Undefined
    /\ dpc = "boot"
    /\ detections = <<>>
    /\ changed = FALSE
    /\ passes = 0

\* The detector while the crawler is modelled alone.
DetectorIdle ==
    /\ payload = [parses |-> FALSE, value |-> Undefined]
    /\ crawlResult = Snapshot(<<>>, <<>>, <<>>, <<>>, <<>>)
    /\ database = Undefined
    /\ dpc = "off"
    /\ detections = <<>>
    /\ changed = FALSE
    /\ passes = 0

\* Object.keys(this.database.technologies) throws a TypeError
KeysOfTechnologiesThrows(value) ==
    value.kind = "null" \/ "technologies" \notin value.keys

\* onModuleInit -> loadFingerprints: JSON.parse, the assignment, the log line
\* that reads the technologies; any exception is rethrown.
LoadFingerprints ==
    /\ dpc = "boot"
    /\ IF ~payload.parses
       THEN /\ dpc' = "startupFailed"
            /\ UNCHANGED database
       ELSE /\ database' = payload.value
            /\ dpc' = IF KeysOfTechnologiesThrows(payload.value)
                      THEN "startupFailed" ELSE "ready"
    /\ UNCHANGED <<payload, crawlResult, detections, changed, passes, nonDetectorVars>>

\* detect() drops the categories of the store once it has scanned.
DetectScanDropsCategories ==
    /\ dpc = "ready"
    /\ dpc' = "done"
    /\ database' = [database EXCEPT !.categories = <<>>]
    /\ UNCHANGED <<payload, crawlResult, detections, changed, passes, nonDetectorVars>>

\* detect(crawlResult) up to the call of processImplications: a fresh map and
\* the loop over the technologies.
DetectScan ==
    /\ dpc = "ready"
    /\ LET r == ScanTechnologies(database, crawlResult,
                    [map |-> <<>>, threw |-> FALSE, error |-> "none"], 1)
       IN  IF r.threw
           THEN /\ dpc' = r.error
                /\ UNCHANGED <<detections, changed>>
           ELSE /\ dpc' = "implications"
                /\ detections' = r.map
                /\ changed' = TRUE
    /\ passes' = 0
    /\ UNCHANGED <<payload, database, crawlResult, nonDetectorVars>>

\* One iteration of processImplications' while loop.
ImplicationsLoop ==
    /\ dpc = "implications"
    /\ LoopContinues(changed, passes)
    /\ passes <= Len(database.technologies) + 1
    /\ LET r == ImplicationPass(database, detections)
       IN  IF r.threw
           THEN /\ dpc' = r.error
                /\ UNCHANGED <<detections, changed>>
           ELSE /\ detections' = r.map
                /\ changed' = r.changed
                /\ UNCHANGED dpc
    /\ passes' = passes + 1
    /\ UNCHANGED <<payload, database, crawlResult, nonDetectorVars>>

\* The while loop ends; detect returns Array.from(detections.values()).
DetectReturn ==
    /\ dpc = "implications"
    /\ ~LoopContinues(changed, passes)
    /\ dpc' = "done"
    /\ UNCHANGED <<payload, database, crawlResult, detections, changed, passes, nonDetectorVars>>

DetectorNext == LoadFingerprints \/ DetectScan \/ ImplicationsLoop \/ DetectReturn

-----------------------------------------------------------------------------
(* CrawlerService: needsBrowser.  HTML is a sequence of tokens, each standing
   for the text given by TokenLength. *)

BodyThreshold == 200

\* "s100" is a run of 100 spaces.
Whitespace == {" ", "\n", "s100"}

RootDivs == {"<div id=\"root\">", "<div id=\"app\">", "<div id=\"__next\">"}

NoscriptWarnings == {"enable javascript", "javascript is required"}

\* The number of characters of a token.
TokenLength(tok) ==
    CASE tok = "<div id=\"root\">" -> 15
      [] tok = "<div id=\"app\">" -> 14
      [] tok = "<div id=\"__next\">" -> 17
      [] tok = "</div>" -> 6
      [] tok = "<body>" -> 6
      [] tok = "</body>" -> 7
      [] tok = "<script>" -> 8
      [] tok = "</script>" -> 9
      [] tok = "<noscript>" -> 10
      [] tok = "</noscript>" -> 11
      [] tok = "enable javascript" -> 17
      [] tok = "javascript is required" -> 22
      [] tok = "x100" -> 100
      [] tok = "s100" -> 100
      [] tok = "<main id=\"root\">" -> 16
      [] tok = "</main>" -> 7
      [] OTHER -> 1

RECURSIVE TextLength(_)
TextLength(toks) ==
    IF toks = <<>> THEN 0 ELSE TokenLength(Head(toks)) + TextLength(Tail(toks))

\* /<div[^>]*id=["']root["'][^>]*>\s*<\/div>/i and the same for app, __next
EmptyRootSignal(html) ==
    \E i \in 1..Len(html) : \E j \in (i + 1)..Len(html) :
        /\ html[i] \in RootDivs
        /\ html[j] = "</div>"
        /\ \A k \in (i + 1)..(j - 1) : html[k] \in Whitespace

\* /<noscript[^>]*>.*?enable javascript/i and ...javascript is required/i:
\* "." does not cross a line break
NoscriptSignal(html) ==
    \E i \in 1..Len(html) : \E j \in (i + 1)..Len(html) :
        /\ html[i] = "<noscript>"
        /\ html[j] \in NoscriptWarnings
        /\ \A k \in (i + 1)..(j - 1) : html[k] # "\n"

\* html.match(/<body[^>]*>([\s\S]*?)<\/body>/i) finds a match
HasBodyMatch(html) ==
    \E i \in 1..Len(html) : \E j \in (i + 1)..Len(html) :
        html[i] = "<body>" /\ html[j] = "</body>"

\* bodyMatch[1]: from the first <body> to the nearest </body> after it
BodyMatch(html) ==
    LET i == CHOOSE a \in 1..Len(html) :
                /\ html[a] = "<body>"
                /\ \A b \in 1..(a - 1) : html[b] # "<body>"
        j == CHOOSE a \in (i + 1)..Len(html) :
                /\ html[a] = "</body>"
                /\ \A b \in (i + 1)..(a - 1) : html[b] # "</body>"
    IN  SubSeq(html, i + 1, j - 1)

\* .replace(/<script[\s\S]*?<\/script>/gi, ''), from token i on
RECURSIVE StripScripts(_, _)
StripScripts(toks, i) ==
    IF i > Len(toks) THEN <<>>
    ELSE IF toks[i] = "<script>" /\ \E j \in (i + 1)..Len(toks) : toks[j] = "</script>"
         THEN StripScripts(toks,
                (CHOOSE j \in (i + 1)..Len(toks) :
                    /\ toks[j] = "</script>"
                    /\ \A b \in (i + 1)..(j - 1) : toks[b] # "</script>") + 1)
         ELSE <<toks[i]>> \o StripScripts(toks, i + 1)

\* .trim()
RECURSIVE Trim(_)
Trim(toks) ==
    IF toks = <<>> THEN <<>>
    ELSE IF Head(toks) \in Whitespace THEN Trim(Tail(toks))
    ELSE IF toks[Len(toks)] \in Whitespace THEN Trim(SubSeq(toks, 1, Len(toks) - 1))
    ELSE toks

NeedsBrowser(html) ==
    \/ EmptyRootSignal(html)
    \/ NoscriptSignal(html)
    \/ /\ HasBodyMatch(html)
       /\ TextLength(Trim(StripScripts(BodyMatch(html), 1))) < BodyThreshold

\* The pages the HTTP tier answers with: a client-rendered shell and a page
\* with 300 characters of text.
HtmlDocs ==
    { <<"<body>", "<div id=\"root\">", "</div>", "</body>">>,
      <<"<body>", "x100", "x100", "x100", "</body>">> }

\* The strings needsBrowser is called with: at most MaxSegments pieces of
\* markup and text, alone, in a body element, after an unclosed <body>, or
\* before a stray </body>.
Pages ==
    LET Segments ==
            { <<"<div id=\"root\">", "</div>">>,
              <<"<div id=\"app\">", " ", "</div>">>,
              <<"<div id=\"__next\">", "\n", "</div>">>,
              <<"<div id=\"root\">", "x", "</div>">>,
              <<"<main id=\"root\">", "</main>">>,
              <<"<noscript>", "enable javascript", "</noscript>">>,
              <<"<noscript>", "</noscript>", "javascript is required">>,
              <<"<noscript>", "\n", "enable javascript", "</noscript>">>,
              <<"x100">>,
              <<"s100">>,
              <<"x">>,
              <<"<script>", "x100", "</script>">>,
              <<"<script>", "x100">> }
        Wrappers ==
            { <<<<>>, <<>>>>,
              <<<<"<body>">>, <<"</body>">>>>,
              <<<<"<body>">>, <<>>>>,
              <<<<>>, <<"</body>">>>> }
    IN  { w[1] \o Flatten(f) \o w[2] :
            w \in Wrappers, f \in UNION {[1..k -> Segments] : k \in 0..MaxSegments} }

\* needsBrowser while another service is modelled alone.
PolicyIdle ==
    /\ page = <<>>
    /\ verdict = "off"

\* needsBrowser(html) runs and returns.
NeedsBrowserCall ==
    /\ verdict = "pending"
    /\ verdict' = IF NeedsBrowser(page) THEN "true" ELSE "false"
    /\ UNCHANGED <<page, detectorVars, crawlerVars, rawDetections, normalized>>

-----------------------------------------------------------------------------
(* CrawlerService: crawl and fetchWithBrowser, one step per run between awaits *)

Requests == 1..MaxRequests

NoRequest ==
    [pc |-> "idle", html |-> <<>>, escalated |-> FALSE, onBrowser |-> 0, ctx |-> 0,
     tier |-> 0,
     forceBrowser |-> FALSE, \* dto.forceBrowser of the request received
     httpCalls |-> 0,       \* calls of fetchWithHttp made for the request
     browserCalls |-> 0,    \* calls of fetchWithBrowser made for the request
     detectCalls |-> 0,     \* calls of detector.detect made for the request
     normalizeCalls |-> 0,  \* calls of normalizer.normalize made for the request
     result |-> 0,          \* meta.tier of the response enrich resolved with, 0: none
     cookiesFrom |-> {}]    \* the requests whose renders set the cookies read

\* renders: the requests whose pages were loaded in the context, leaving
\* their cookies in it.
NoContext == [state |-> "none", browser |-> 0, renders |-> {}]

CrawlerInit ==
    /\ browser = 0
    /\ launched = {}
    /\ closedBrowsers = {}
    /\ contexts = [r \in Requests |-> NoContext]
    /\ req = [r \in Requests |-> NoRequest]
    /\ destroyed = FALSE

\* fetchWithBrowser works on whichever context the browser has open first.
UsedContextShared(r) ==
    IF \E c \in Requests : contexts[c].state = "open"
    THEN CHOOSE c \in Requests :
            /\ contexts[c].state = "open"
            /\ \A d \in 1..(c - 1) : contexts[d].state # "open"
    ELSE req[r].ctx

\* fetchWithBrowser works on its local const context.
UsedContext(r) == req[r].ctx

\* crawl() escalates whatever the HTTP tier's HTML is.
EscalatesAlways(html) == TRUE

\* if (this.needsBrowser(tier2Result.html))
Escalates(html) == NeedsBrowser(html)

\* The tier marker of crawl()'s result.
ResultTier(escalated) == IF escalated THEN 3 ELSE 2

\* The bodies of POST /enrich: a domain and the optional flag forceBrowser.
EnrichRequestDtos == [domain : {"example.com", "localhost"}, forceBrowser : BOOLEAN]

\* EnrichmentController.isValidDomain on the domains of the bodies: the regex
\* asks for at least one dot-terminated label before the top-level domain.
isValidDomain(domain) == domain = "example.com"

\* enrich(domain) calls crawl(domain), which runs up to the await of
\* fetchWithHttp's axios.get.
Crawl(r) ==
    /\ ~destroyed
    /\ req[r].pc = "idle"
    /\ req' = [req EXCEPT ![r].pc = "http", ![r].httpCalls = @ + 1]
    /\ UNCHANGED <<browser, launched, closedBrowsers, contexts, destroyed, nonCrawlerVars>>

\* EnrichmentController.enrich receives dto: an invalid domain is answered
\* with 400; otherwise enrichmentService.enrich(dto.domain) is called, which
\* calls crawl(domain) as above.
ControllerEnrich(r) ==
    /\ ~destroyed
    /\ req[r].pc = "idle"
    /\ \E dto \in EnrichRequestDtos :
        req' = IF isValidDomain(dto.domain)
               THEN [req EXCEPT ![r].pc = "http", ![r].httpCalls = @ + 1,
                                ![r].forceBrowser = dto.forceBrowser]
               ELSE [req EXCEPT ![r].pc = "badRequest",
                                ![r].forceBrowser = dto.forceBrowser]
    /\ UNCHANGED <<browser, launched, closedBrowsers, contexts, destroyed, nonCrawlerVars>>

\* axios.get resolves: the snapshot is built, needsBrowser decides, and either
\* crawl returns the tier-2 result or fetchWithBrowser runs to its first await.
HttpResolve(r) ==
    /\ req[r].pc = "http"
    /\ \E html \in HtmlDocs :
        IF Escalates(html)
        THEN IF browser = 0
             THEN /\ launched' = launched \cup {r}
                  /\ req' = [req EXCEPT ![r].pc = "launch", ![r].html = html,
                                        ![r].escalated = TRUE,
                                        ![r].browserCalls = @ + 1,
                                        ![r].onBrowser = r]
             ELSE /\ req' = [req EXCEPT ![r].pc = "newContext", ![r].html = html,
                                        ![r].escalated = TRUE,
                                        ![r].browserCalls = @ + 1,
                                        ![r].onBrowser = browser]
                  /\ UNCHANGED launched
        ELSE /\ req' = [req EXCEPT ![r].pc = "returned", ![r].html = html,
                                   ![r].tier = ResultTier(req[r].escalated)]
             /\ UNCHANGED launched
    /\ UNCHANGED <<browser, closedBrowsers, contexts, destroyed, nonCrawlerVars>>

\* axios.get rejects (timeout, unreachable host, status >= 500): crawl rethrows.
HttpReject(r) ==
    /\ req[r].pc = "http"
    /\ req' = [req EXCEPT ![r].pc = "failed"]
    /\ UNCHANGED <<browser, launched, closedBrowsers, contexts, destroyed, nonCrawlerVars>>

\* chromium.launch resolves: this.browser is assigned, newContext is called on it.
LaunchResolve(r) ==
    /\ req[r].pc = "launch"
    /\ browser' = req[r].onBrowser
    /\ req' = [req EXCEPT ![r].pc = "newContext"]
    /\ UNCHANGED <<launched, closedBrowsers, contexts, destroyed, nonCrawlerVars>>

LaunchReject(r) ==
    /\ req[r].pc = "launch"
    /\ req' = [req EXCEPT ![r].pc = "failed"]
    /\ UNCHANGED <<browser, launched, closedBrowsers, contexts, destroyed, nonCrawlerVars>>

\* this.browser.newContext resolves; context.newPage is called.
NewContextResolve(r) ==
    /\ req[r].pc = "newContext"
    /\ req[r].onBrowser \notin closedBrowsers
    /\ contexts' = [contexts EXCEPT ![r] = [state |-> "open",
                                            browser |-> req[r].onBrowser,
                                            renders |-> {}]]
    /\ req' = [req EXCEPT ![r].pc = "newPage", ![r].ctx = r]
    /\ UNCHANGED <<browser, launched, closedBrowsers, destroyed, nonCrawlerVars>>

NewContextReject(r) ==
    /\ req[r].pc = "newContext"
    /\ req' = [req EXCEPT ![r].pc = "failed"]
    /\ UNCHANGED <<browser, launched, closedBrowsers, contexts, destroyed, nonCrawlerVars>>

\* context.newPage resolves; the try block is entered and page.goto is called.
NewPageResolve(r) ==
    /\ req[r].pc = "newPage"
    /\ contexts[UsedContext(r)].state = "open"
    /\ req' = [req EXCEPT ![r].pc = "goto"]
    /\ UNCHANGED <<browser, launched, closedBrowsers, contexts, destroyed, nonCrawlerVars>>

\* context.newPage rejects before the try block: nothing closes the context.
NewPageReject(r) ==
    /\ req[r].pc = "newPage"
    /\ req' = [req EXCEPT ![r].pc = "failed"]
    /\ UNCHANGED <<browser, launched, closedBrowsers, contexts, destroyed, nonCrawlerVars>>

\* page.goto, waitForTimeout and page.content resolve; context.cookies is called.
GotoResolve(r) ==
    /\ req[r].pc = "goto"
    /\ contexts[UsedContext(r)].state = "open"
    /\ contexts' = [contexts EXCEPT ![UsedContext(r)].renders = @ \cup {r}]
    /\ req' = [req EXCEPT ![r].pc = "cookies"]
    /\ UNCHANGED <<browser, launched, closedBrowsers, destroyed, nonCrawlerVars>>

\* One of them rejects: the finally block calls context.close.
GotoReject(r) ==
    /\ req[r].pc = "goto"
    /\ req' = [req EXCEPT ![r].pc = "closeThenThrow"]
    /\ UNCHANGED <<browser, launched, closedBrowsers, contexts, destroyed, nonCrawlerVars>>

\* context.cookies resolves; the result is built and the finally block calls
\* context.close.
CookiesResolve(r) ==
    /\ req[r].pc = "cookies"
    /\ contexts[UsedContext(r)].state = "open"
    /\ req' = [req EXCEPT ![r].pc = "closeThenReturn",
                          ![r].cookiesFrom = contexts[UsedContext(r)].renders]
    /\ UNCHANGED <<browser, launched, closedBrowsers, contexts, destroyed, nonCrawlerVars>>

CookiesReject(r) ==
    /\ req[r].pc = "cookies"
    /\ req' = [req EXCEPT ![r].pc = "closeThenThrow"]
    /\ UNCHANGED <<browser, launched, closedBrowsers, contexts, destroyed, nonCrawlerVars>>

\* context.close resolves: fetchWithBrowser returns or rethrows, and so does crawl.
CloseResolve(r) ==
    /\ req[r].pc \in {"closeThenReturn", "closeThenThrow"}
    /\ contexts' = [contexts EXCEPT ![UsedContext(r)].state = "closed"]
    /\ req' = IF req[r].pc = "closeThenReturn"
              THEN [req EXCEPT ![r].pc = "returned", ![r].tier = ResultTier(req[r].escalated)]
              ELSE [req EXCEPT ![r].pc = "failed"]
    /\ UNCHANGED <<browser, launched, closedBrowsers, destroyed, nonCrawlerVars>>

\* onModuleDestroy: this.browser, if set, is closed, and its contexts with it.
OnModuleDestroy ==
    /\ ~destroyed
    /\ destroyed' = TRUE
    /\ IF browser # 0
       THEN /\ closedBrowsers' = closedBrowsers \cup {browser}
            /\ contexts' = [c \in Requests |->
                    IF contexts[c].state = "open" /\ contexts[c].browser = browser
                    THEN [contexts[c] EXCEPT !.state = "closed"] ELSE contexts[c]]
       ELSE UNCHANGED <<closedBrowsers, contexts>>
    /\ UNCHANGED <<browser, launched, req, nonCrawlerVars>>

\* EnrichmentService.enrich: await crawl resolved; detector.detect and
\* firmographics.infer are called and Promise.all is awaited.
EnrichDetect(r) ==
    /\ req[r].pc = "returned"
    /\ req' = [req EXCEPT ![r].pc = "detecting", ![r].detectCalls = @ + 1]
    /\ UNCHANGED <<browser, launched, closedBrowsers, contexts, destroyed, nonCrawlerVars>>

\* Promise.all resolved: normalizer.normalize runs and enrich resolves with
\* the response, whose meta.tier is crawlResult.tier.
EnrichReturn(r) ==
    /\ req[r].pc = "detecting"
    /\ req' = [req EXCEPT ![r].pc = "resolved", ![r].normalizeCalls = @ + 1,
                          ![r].result = req[r].tier]
    /\ UNCHANGED <<browser, launched, closedBrowsers, contexts, destroyed, nonCrawlerVars>>

\* enrich() goes on with detection after crawl rejected.
EnrichFallsBack(r) ==
    /\ req[r].pc = "failed"
    /\ req' = [req EXCEPT ![r].pc = "detecting", ![r].detectCalls = @ + 1]
    /\ UNCHANGED <<browser, launched, closedBrowsers, contexts, destroyed, nonCrawlerVars>>

\* await crawl rejected: enrich has no try block, so its promise rejects with
\* the same error.
EnrichThrow(r) ==
    /\ req[r].pc = "failed"
    /\ req' = [req EXCEPT ![r].pc = "rejected"]
    /\ UNCHANGED <<browser, launched, closedBrowsers, contexts, destroyed, nonCrawlerVars>>

CrawlerNext ==
    \/ \E r \in Requests : Crawl(r)
    \/ \E r \in Requests : HttpResolve(r)
    \/ \E r \in Requests : HttpReject(r)
    \/ \E r \in Requests : LaunchResolve(r)
    \/ \E r \in Requests : LaunchReject(r)
    \/ \E r \in Requests : NewContextResolve(r)
    \/ \E r \in Requests : NewContextReject(r)
    \/ \E r \in Requests : NewPageResolve(r)
    \/ \E r \in Requests : NewPageReject(r)
    \/ \E r \in Requests : GotoResolve(r)
    \/ \E r \in Requests : GotoReject(r)
    \/ \E r \in Requests : CookiesResolve(r)
    \/ \E r \in Requests : CookiesReject(r)
    \/ \E r \in Requests : CloseResolve(r)
    \/ \E r \in Requests : EnrichDetect(r)
    \/ \E r \in Requests : EnrichReturn(r)
    \/ \E r \in Requests : EnrichThrow(r)
    \/ OnModuleDestroy

\* One request that comes in through the controller and runs to its answer.
ControllerNext ==
    \/ \E r \in {1} : ControllerEnrich(r)
    \/ \E r \in {1} : HttpResolve(r)
    \/ \E r \in {1} : HttpReject(r)
    \/ \E r \in {1} : LaunchResolve(r)
    \/ \E r \in {1} : LaunchReject(r)
    \/ \E r \in {1} : NewContextResolve(r)
    \/ \E r \in {1} : NewContextReject(r)
    \/ \E r \in {1} : NewPageResolve(r)
    \/ \E r \in {1} : NewPageReject(r)
    \/ \E r \in {1} : GotoResolve(r)
    \/ \E r \in {1} : GotoReject(r)
    \/ \E r \in {1} : CookiesResolve(r)
    \/ \E r \in {1} : CookiesReject(r)
    \/ \E r \in {1} : CloseResolve(r)
    \/ \E r \in {1} : EnrichDetect(r)
    \/ \E r \in {1} : EnrichReturn(r)
    \/ \E r \in {1} : EnrichThrow(r)
    \/ OnModuleDestroy

-----------------------------------------------------------------------------
(* Objects keyed by strings that may be array indices.  An object is the
   sequence of its entries in insertion order; enumeration puts the keys that
   are array indices first, in ascending numeric order. *)

\* obj[key] = value
Put(obj, key, value) ==
    IF HasOwn(obj, key)
    THEN [i \in 1..Len(obj) |-> IF obj[i].key = key THEN Entry(key, value) ELSE obj[i]]
    ELSE Append(obj, Entry(key, value))

\* key is the canonical decimal form of an integer (of at most nine digits)
IsArrayIndex(key) ==
    /\ Len(key) \in 1..9
    /\ \A i \in 1..Len(key) : CodeUnit[key[i]] \in CodeUnit["0"]..CodeUnit["9"]
    /\ Len(key) = 1 \/ key[1] # "0"

RECURSIVE ToNumber(_)
ToNumber(key) ==
    IF key = <<>> THEN 0
    ELSE 10 * ToNumber(SubSeq(key, 1, Len(key) - 1))
         + (CodeUnit[key[Len(key)]] - CodeUnit["0"])

\* Object.entries(obj)
ObjectEntries(obj) ==
    LET index == {i \in 1..Len(obj) : IsArrayIndex(obj[i].key)}
        Place(i) == 1 + Cardinality({j \in index :
                            ToNumber(obj[j].key) < ToNumber(obj[i].key)})
        IsName(e) == ~IsArrayIndex(e.key)
    IN  [n \in 1..Cardinality(index) |-> obj[CHOOSE i \in index : Place(i) = n]]
        \o SelectSeq(obj, IsName)

\* Object.keys(obj)
ObjectKeys(obj) == [i \in 1..Len(obj) |-> ObjectEntries(obj)[i].key]

-----------------------------------------------------------------------------
(* taxonomy.ts *)

\* CATEGORY_MAPPING, the entries for server, marketing and crm
CATEGORY_MAPPING ==
    << Entry(Chars("server"), <<Chars("Nginx"), Chars("Apache")>>),
       Entry(Chars("marketing"), <<Chars("HubSpot")>>),
       Entry(Chars("crm"), <<Chars("Salesforce"), Chars("HubSpot")>>) >>

\* null, which the test !category treats as the empty string
Null == <<>>

RECURSIVE GetTechCategoryFrom(_, _)
GetTechCategoryFrom(techName, i) ==
    IF i > Len(ObjectEntries(CATEGORY_MAPPING)) THEN Null
    ELSE LET e == ObjectEntries(CATEGORY_MAPPING)[i]
         IN  IF \E j \in 1..Len(e.value) : e.value[j] = techName
             THEN e.key
             ELSE GetTechCategoryFrom(techName, i + 1)

\* The lookup goes on to the end of the table: the last category that lists
\* the name is returned.
getTechCategoryLast(techName) ==
    LET entries == ObjectEntries(CATEGORY_MAPPING)
        hits == {i \in 1..Len(entries) :
                    \E j \in 1..Len(entries[i].value) : entries[i].value[j] = techName}
    IN  IF hits = {} THEN Null
        ELSE entries[CHOOSE i \in hits : \A h \in hits : h <= i].key

getTechCategory(techName) == GetTechCategoryFrom(techName, 1)

-----------------------------------------------------------------------------
(* NormalizerService: numbers.  A confidence is a multiple of 1/8, held as the
   count of eighths: these values and their sums are exact as doubles, and the
   only rounding in sum / length is that of the division.  A result of
   toFixed(2) is held as the count of hundredths. *)

ConfidenceUnit == 8

\* The significant bits of a double.
MantissaBits == 53

\* a and b scaled by powers of two so that b <= a < 2b, for a > 0
RECURSIVE Normalised(_, _)
Normalised(a, b) ==
    IF a < b THEN Normalised(2 * a, b)
    ELSE IF a >= 2 * b THEN Normalised(a, 2 * b)
    ELSE <<a, b>>

\* Long division: k more bits of r / b; the remainder and the last bit.
RECURSIVE QuotientBits(_, _, _, _)
QuotientBits(r, b, k, lsb) ==
    IF k = 0 THEN [rem |-> r, lsb |-> lsb]
    ELSE LET bit == IF r >= b THEN 1 ELSE 0
         IN  QuotientBits(2 * (r - bit * b), b, k - 1, bit)

\* Where the double a / b lies from the rational a / b: -1 below, 0 on it,
\* 1 above (round to nearest, ties to even).
DivisionError(a, b) ==
    IF a = 0 THEN 0
    ELSE LET n == Normalised(a, b)
             q == QuotientBits(n[1], n[2], MantissaBits, 0)
             roundBit == IF q.rem >= n[2] THEN 1 ELSE 0
             sticky == 2 * (q.rem - roundBit * n[2]) > 0
         IN  IF q.rem = 0 THEN 0
             ELSE IF roundBit = 0 THEN -1
             ELSE IF sticky THEN 1
             ELSE IF q.lsb = 1 THEN 1 ELSE -1

\* (a / b).toFixed(2) for the double a / b: the n with n / 100 nearest to the
\* double, the larger n of two.  The double is within 2^-53 of a / b, so it is
\* on the same side of the midpoint (2j + 1) / 200 as a / b unless a / b is
\* that midpoint.
ToFixed2(a, b) ==
    LET j == (100 * a) \div b
    IN  IF 200 * a < (2 * j + 1) * b THEN j
        ELSE IF 200 * a > (2 * j + 1) * b THEN j + 1
        ELSE IF DivisionError(a, b) >= 0 THEN j + 1 ELSE j

\* scores.reduce((a, b) => a + b, 0)
RECURSIVE Sum(_)
Sum(scores) == IF scores = <<>> THEN 0 ELSE Head(scores) + Sum(Tail(scores))

\* Number((sum / scores.length).toFixed(2))
AvgConfidence(scores) == ToFixed2(Sum(scores), ConfidenceUnit * Len(scores))

-----------------------------------------------------------------------------
(* NormalizerService.normalize *)

\* detection.category.toLowerCase().replace(/\s+/g, '_')
Slug(category) == ReplaceWhitespaceRuns(ToLowerCase(category), 1)

\* The category normalize files the detection under.
CategoryOf(detection) ==
    IF getTechCategory(detection.name) = Null
    THEN Slug(detection.category)
    ELSE getTechCategory(detection.name)

\* array.includes(x)
Includes(array, x) == \E i \in 1..Len(array) : array[i] = x

\* The body of the loop over the detections.
NormalizeStep(acc, detection) ==
    LET category == CategoryOf(detection)
        fresh == ~HasOwn(acc.technologies, category)
        technologies == IF fresh THEN Put(acc.technologies, category, <<>>)
                        ELSE acc.technologies
        categoryConfidences == IF fresh THEN Put(acc.categoryConfidences, category, <<>>)
                               ELSE acc.categoryConfidences
    IN  IF Includes(Get(technologies, category), detection.name)
        THEN [technologies |-> technologies,
              categoryConfidences |-> categoryConfidences]
        ELSE [technologies |->
                Put(technologies, category,
                    Append(Get(technologies, category), detection.name)),
              categoryConfidences |->
                Put(categoryConfidences, category,
                    Append(Get(categoryConfidences, category), detection.confidence))]

RECURSIVE NormalizeScan(_, _, _)
NormalizeScan(input, acc, i) ==
    IF i > Len(input) THEN acc
    ELSE NormalizeScan(input, NormalizeStep(acc, input[i]), i + 1)

\* rawCount counts the detections that were not implied.
RawCountDirect(input) ==
    Cardinality({i \in 1..Len(input) : input[i].source # "implied"})

\* rawCount: detections.length
RawCount(input) == Len(input)

\* The loop over Object.entries(categoryConfidences) fills confidence in the
\* order of the entries; the loop over Object.keys(technologies) sorts each
\* list in its place.
Normalize(input) ==
    LET acc == NormalizeScan(input,
                    [technologies |-> <<>>, categoryConfidences |-> <<>>], 1)
        entries == ObjectEntries(acc.categoryConfidences)
    IN  [done |-> TRUE,
         technologies |->
            [i \in 1..Len(acc.technologies) |->
                Entry(acc.technologies[i].key, Sort(acc.technologies[i].value))],
         confidence |->
            [i \in 1..Len(entries) |->
                Entry(entries[i].key, AvgConfidence(entries[i].value))],
         rawCount |-> RawCount(input)]

\* No result yet.
NotNormalized ==
    [done |-> FALSE, technologies |-> <<>>, confidence |-> <<>>, rawCount |-> 0]

Detection(name, category, confidence) ==
    [name |-> Chars(name), category |-> Chars(category), confidence |-> confidence,
     source |-> "html"]

\* Detections of technologies in and out of the override table, with raw
\* categories that differ in case and whitespace or are array indices.
DetectionPool ==
    { Detection("Nginx", "Web Servers", 8),
      Detection("Apache", "Web Servers", 4),
      Detection("caddy", "Web Servers", 8),
      Detection("caddy", "Web Servers", 4),
      Detection("Zope", "WEB \tServers", 4),
      Detection("HubSpot", "CMS", 8),
      Detection("Zope", "CMS", 2),
      Detection("caddy", "10", 8),
      Detection("Zope", "2", 8) }

\* The lists given to normalize: up to MaxDetections detections of the pool,
\* or up to MaxScores technologies a, b, c, ... of the raw category CMS with
\* confidences 0, 0.125, 0.5 and 1.
NormalizerInputs ==
    UNION {[1..k -> DetectionPool] : k \in 0..MaxDetections}
    \cup UNION { { [i \in 1..k |->
                        [name |-> <<CodeUnits[CodeUnit["a"] + i - 1]>>,
                         category |-> Chars("CMS"), confidence |-> f[i],
                         source |-> "html"]] :
                    f \in [1..k -> {0, 1, 4, 8}] } : k \in 1..MaxScores }

\* The normalizer while another service is modelled alone or has not got to it.
NormalizerIdle ==
    /\ rawDetections = <<>>
    /\ normalized = NotNormalized

\* normalize(detections) runs and returns.
NormalizeCall ==
    /\ ~normalized.done
    /\ normalized' = Normalize(rawDetections)
    /\ UNCHANGED <<rawDetections, detectorVars, crawlerVars, page, verdict>>

\* A Detection of detect() as normalize reads it.
FromDetector(det) ==
    [name |-> Chars(det.name), category |-> Chars(det.category),
     confidence |-> det.confidence * ConfidenceUnit, source |-> det.source]

\* EnrichmentService.enrich: detect has returned rawDetections and
\* normalize(rawDetections) runs.
EnrichNormalize ==
    /\ dpc = "done"
    /\ ~normalized.done
    /\ rawDetections' = [i \in 1..Len(detections) |-> FromDetector(detections[i])]
    /\ normalized' = Normalize(rawDetections')
    /\ UNCHANGED <<detectorVars, crawlerVars, page, verdict>>

\* EnrichmentService.enrich for the next request, once the one before has been
\* answered or detect has thrown: detect is called with the request's own
\* crawlResult, a fresh map and fresh locals.
NextDetect ==
    /\ \/ dpc = "done" /\ normalized.done
       \/ dpc \notin {"off", "boot", "startupFailed", "ready", "implications", "done"}
    /\ crawlResult' \in SnapshotsFor(payload)
    /\ dpc' = "ready"
    /\ detections' = <<>>
    /\ changed' = FALSE
    /\ passes' = 0
    /\ rawDetections' = <<>>
    /\ normalized' = NotNormalized
    /\ UNCHANGED <<payload, database, crawlerVars, page, verdict>>

InitCrawler == CrawlerInit /\ DetectorIdle /\ PolicyIdle /\ NormalizerIdle

SpecCrawler == InitCrawler /\ [][CrawlerNext]_vars

SpecController == InitCrawler /\ [][ControllerNext]_vars

\* The crawler while the detector is modelled alone.
CrawlerIdle ==
    /\ browser = 0
    /\ launched = {}
    /\ closedBrowsers = {}
    /\ contexts = <<>>
    /\ req = <<>>
    /\ destroyed = FALSE

Init == DetectorInit /\ CrawlerIdle /\ PolicyIdle /\ NormalizerIdle

Next == DetectorNext \/ EnrichNormalize \/ NextDetect

Spec == Init /\ [][Next]_vars

InitNeedsBrowser ==
    /\ page \in Pages
    /\ verdict = "pending"
    /\ DetectorIdle /\ CrawlerIdle /\ NormalizerIdle

SpecNeedsBrowser == InitNeedsBrowser /\ [][NeedsBrowserCall]_vars

InitNormalizer ==
    /\ rawDetections \in NormalizerInputs
    /\ normalized = NotNormalized
    /\ DetectorIdle /\ CrawlerIdle /\ PolicyIdle

SpecNormalizer == InitNormalizer /\ [][NormalizeCall]_vars

-----------------------------------------------------------------------------
(* Properties of DetectorService *)

Rank(kind) ==
    CASE kind = "header" -> 1
      [] kind = "cookie" -> 2
      [] kind = "script" -> 3
      [] kind = "html" -> 4
      [] kind = "meta" -> 5

AllKinds == {"header", "cookie", "script", "html", "meta"}

KindMatches(tech, cr, kind) ==
    KindDeclared(tech, kind) /\ MatchKind(tech, cr, kind) = "true"

MatchingKinds(tech, cr) == {k \in AllKinds : KindMatches(tech, cr, k)}

Returned == dpc = "done"

RuleOf(t) == Get(database.technologies, t)

RuleNames(db) == {db.technologies[i].key : i \in 1..Len(db.technologies)}

DirectNames == {detections[i].name : i \in {j \in 1..Len(detections) : detections[j].source # "implied"}}

\* C1: when detect returns, every technology with some matching evidence kind
\* is recorded with the matching kind that comes first in the order header,
\* cookie, script, html, meta; a technology no kind matches is recorded, if at
\* all, as implied.  A technology matching by header and by cookie has source
\* "header".
C1_EvidencePriority ==
    Returned =>
        \A i \in 1..Len(database.technologies) :
            LET t == database.technologies[i].key
                M == MatchingKinds(database.technologies[i].value, crawlResult)
            IN  IF M = {}
                THEN \A j \in 1..Len(detections) :
                        detections[j].name = t => detections[j].source = "implied"
                ELSE \E j \in 1..Len(detections) :
                        /\ detections[j].name = t
                        /\ detections[j].source \in M
                        /\ \A k \in M : Rank(detections[j].source) <= Rank(k)

C1_Witness ==
    /\ Returned
    /\ HasOwn(database.technologies, "A")
    /\ {"header", "cookie"} \subseteq MatchingKinds(RuleOf("A"), crawlResult)
    /\ \E j \in 1..Len(detections) :
            detections[j].name = "A" /\ detections[j].source = "header"

ImpliedSet(db, t) ==
    IF HasOwn(db.technologies, t)
    THEN {Get(db.technologies, t).implies.items[i] :
            i \in 1..Len(Get(db.technologies, t).implies.items)}
    ELSE {}

MutualAB ==
    /\ database.kind = "object"
    /\ ImpliedSet(database, "A") = {"B"}
    /\ ImpliedSet(database, "B") = {"A"}

\* C3: processImplications' while loop ends, whatever cycles the implication
\* graph has: it never makes more passes than the store has technologies plus
\* one, and whenever it is about to make another pass it has made at most as
\* many as the store has technologies.  From the detection set {A}, with A
\* implying B and B implying A, it returns exactly {A, B}.
C3_ImplicationsTerminate ==
    /\ passes <= Len(database.technologies) + 1
    /\ (dpc = "implications" /\ changed => passes <= Len(database.technologies))
    /\ (Returned /\ MutualAB /\ DirectNames = {"A"} => Names(detections) = {"A", "B"})

C3_Witness ==
    /\ Returned
    /\ MutualAB
    /\ DirectNames = {"A"}
    /\ passes = 2

\* The least set of names that holds S and, with a name, every name it implies
\* that has a rule in the store.
RECURSIVE Closure(_, _)
Closure(db, S) ==
    LET step == S \cup {n \in RuleNames(db) : \E t \in S : n \in ImpliedSet(db, t)}
    IN  IF step = S THEN S ELSE Closure(db, step)

C5_ImplicationsIdempotent ==
    Returned => ProcessImplications(database, detections) = detections

C5_Witness ==
    /\ Returned
    /\ passes >= 3
    /\ \E i \in 1..Len(detections) : detections[i].source = "implied"

\* C6: the detections of a detect call never hold two entries of one name,
\* while implications are processed and when the list is returned.
C6_OneDetectionPerName ==
    dpc \in {"implications", "done"} =>
        \A i, j \in 1..Len(detections) :
            detections[i].name = detections[j].name => i = j

C6_Witness ==
    /\ Returned
    /\ "B" \in DirectNames
    /\ "B" \in ImpliedSet(database, "A")
    /\ "B" \in ImpliedSet(database, "B")
    /\ "A" \in DirectNames
    /\ Len(detections) = 2

EmptyPatternKeyPresent(tech, cr) ==
    \/ \E i \in 1..Len(tech.headers.entries) :
        /\ tech.headers.entries[i].value = <<>>
        /\ HasOwn(cr.headers, ToLowerCase(tech.headers.entries[i].key))
    \/ \E i \in 1..Len(tech.cookies.entries) :
        /\ tech.cookies.entries[i].value = <<>>
        /\ \E j \in 1..Len(cr.cookies) :
                CookieKey(cr.cookies[j]) = tech.cookies.entries[i].key
    \/ \E i \in 1..Len(tech.meta.entries) :
        /\ \E j \in 1..Len(tech.meta.entries[i].value.items) :
                tech.meta.entries[i].value.items[j] = <<>>
        /\ HasOwn(cr.meta, ToLowerCase(tech.meta.entries[i].key))

\* C7: when detect returns, every technology with an empty-string header,
\* cookie or meta pattern whose key the snapshot has is detected, whatever
\* value the snapshot holds under that key.
C7_PresenceAloneMatches ==
    Returned =>
        \A i \in 1..Len(database.technologies) :
            EmptyPatternKeyPresent(database.technologies[i].value, crawlResult)
                => database.technologies[i].key \in Names(detections)

GoodItems(ps) == SelectSeq(ps, RegExpCompiles)

\* A pattern field without its patterns that do not compile.
StripPatterns(p) ==
    IF p.type = "string"
    THEN IF RegExpCompiles(p.items[1]) THEN p ELSE NoPatterns
    ELSE IF p.type = "array" THEN Arr(GoodItems(p.items))
    ELSE p

EntryCompiles(e) == RegExpCompiles(e.value)

EntryDefined(e) == e.value.type # "undefined"

StripRule(r) ==
    [r EXCEPT !.headers.entries = SelectSeq(@, EntryCompiles),
              !.cookies.entries = SelectSeq(@, EntryCompiles),
              !.scripts = StripPatterns(@),
              !.html = StripPatterns(@),
              !.meta.entries = SelectSeq([i \in 1..Len(@) |->
                                    Entry(@[i].key, StripPatterns(@[i].value))],
                                  EntryDefined)]

\* The store with every pattern that does not compile taken out.
StripStore(db) ==
    [db EXCEPT !.technologies =
        [i \in 1..Len(@) |-> Entry(@[i].key, StripRule(@[i].value))]]

\* C8: detect never fails with the regular expression's SyntaxError, and the
\* list it returns is the list it returns for the same store with the patterns
\* that do not compile taken out.
C8_BadPatternSkipped ==
    /\ dpc # "SyntaxError"
    /\ Returned =>
        detections =
            ProcessImplications(StripStore(database),
                ScanTechnologies(StripStore(database), crawlResult,
                    [map |-> <<>>, threw |-> FALSE, error |-> "none"], 1).map)

\* A bad pattern is compiled and fails, a later pattern of the same rule
\* matches, and the technology scanned after it is detected too.
C8_Witness ==
    /\ Returned
    /\ HasOwn(database.technologies, "A")
    /\ RuleOf("A").headers.entries = <<Entry(KeyXg, PatBad), Entry(KeySv, PatA)>>
    /\ Truthy(crawlResult.headers, ToLowerCase(KeyXg))
    /\ Names(detections) = {"A", "B"}
    /\ detections[1].source = "header"

\* C9: a store is in use (start-up did not fail) only if the payload parsed to
\* an object that has both top-level keys, technologies and categories.
C9_StartupRejectsIncompleteStore ==
    dpc \notin {"boot", "startupFailed"} =>
        /\ payload.parses
        /\ database.kind = "object"
        /\ {"technologies", "categories"} \subseteq database.keys

-----------------------------------------------------------------------------
(* Properties of CrawlerService *)

\* C2: chromium.launch is called at most once in the process lifetime, and a
\* browser that onModuleDestroy closed is the only one ever launched.
C2_SingleBrowserLaunch ==
    /\ Cardinality(launched) <= 1
    /\ closedBrowsers # {} => closedBrowsers = launched

BrowserTierPcs ==
    {"launch", "newContext", "newPage", "goto", "cookies", "closeThenReturn",
     "closeThenThrow"}

HttpTierDone(r) == req[r].pc \notin {"idle", "http"}

BrowserTierStarted(r) ==
    \/ req[r].pc \in BrowserTierPcs
    \/ req[r].escalated
    \/ req[r].onBrowser # 0
    \/ req[r].ctx # 0

\* C10: a request is in, or has been through, the browser tier only if its
\* HTTP tier has completed and needsBrowser is true of the HTML that tier
\* fetched; when needsBrowser is false of it the browser tier is never
\* started; and a returned result has tier 3 if the request escalated and
\* tier 2 otherwise.
C10_EscalationGated ==
    \A r \in Requests :
        /\ BrowserTierStarted(r) => HttpTierDone(r) /\ NeedsBrowser(req[r].html)
        /\ HttpTierDone(r) /\ ~NeedsBrowser(req[r].html) => ~BrowserTierStarted(r)
        /\ req[r].pc = "returned" =>
            /\ req[r].tier \in {2, 3}
            /\ req[r].tier = 3 <=> BrowserTierStarted(r)
            /\ req[r].tier = 3 <=> NeedsBrowser(req[r].html)

C10_Witness ==
    \E r, q \in Requests :
        /\ req[r].pc = "returned" /\ req[r].tier = 3 /\ req[r].ctx # 0
        /\ NeedsBrowser(req[r].html)
        /\ req[q].pc = "returned" /\ req[q].tier = 2 /\ req[q].ctx = 0
        /\ ~NeedsBrowser(req[q].html) /\ Len(req[q].html) > 0

\* The positions of a request whose acquisition has failed at one of the tiers.
AcquisitionFailedPcs == {"closeThenThrow", "failed", "rejected"}

\* C11: a request whose acquisition failed at either tier only goes on to
\* reject enrich: detect and normalize are never called for it and enrich
\* resolves with no response; fetchWithHttp and fetchWithBrowser are each
\* called at most once per request.
C11_AcquisitionFailureAborts ==
    [][\A r \in Requests :
        /\ req'[r].httpCalls <= 1
        /\ req'[r].browserCalls <= 1
        /\ req[r].pc \in AcquisitionFailedPcs => req'[r].pc \in AcquisitionFailedPcs
        /\ req[r].pc = "failed" /\ req'[r] # req[r] => req'[r].pc = "rejected"
        /\ req'[r].pc \in AcquisitionFailedPcs =>
            /\ req'[r].detectCalls = 0
            /\ req'[r].normalizeCalls = 0
            /\ req'[r].result = 0]_vars

\* One request rejected after its HTTP tier failed, another after its HTTP tier
\* succeeded and its browser tier failed.
C11_Witness ==
    \E r, q \in Requests :
        /\ req[r].pc = "rejected" /\ req[r].html = <<>>
        /\ req[r].httpCalls = 1 /\ req[r].browserCalls = 0
        /\ req[q].pc = "rejected" /\ Len(req[q].html) > 0
        /\ req[q].httpCalls = 1 /\ req[q].browserCalls = 1

\* C12: a request in the browser tier works on the context its own newContext
\* call created, which no other request works on; only its own page is ever
\* loaded in that context, and the cookies it reads were set by its own render.
C12_OwnContext ==
    \A r \in Requests :
        /\ req[r].pc \in {"newPage", "goto", "cookies", "closeThenReturn", "closeThenThrow"}
            => UsedContext(r) = r /\ contexts[r].state # "none"
        /\ \A q \in Requests \ {r} : req[r].ctx # 0 => req[r].ctx # req[q].ctx
        /\ contexts[r].renders \subseteq {r}
        /\ req[r].cookiesFrom \subseteq {r}
        /\ req[r].pc = "closeThenReturn" => req[r].cookiesFrom = {r}

\* Two requests have their contexts open in the same browser at once; one has
\* read its cookies while the other's page is loaded.
C12_Witness ==
    \E r, q \in Requests :
        /\ r # q
        /\ contexts[r].state = "open" /\ contexts[q].state = "open"
        /\ contexts[r].browser = contexts[q].browser
        /\ req[r].pc = "closeThenReturn" /\ req[r].cookiesFrom = {r}
        /\ req[q].pc = "cookies" /\ contexts[q].renders = {q}

-----------------------------------------------------------------------------
(* Properties of CrawlerService.needsBrowser *)

\* The start and end tags of elements with one of the mount-point ids.
RootElements ==
    { <<"<div id=\"root\">", "</div>">>,
      <<"<div id=\"app\">", "</div>">>,
      <<"<div id=\"__next\">", "</div>">>,
      <<"<main id=\"root\">", "</main>">> }

\* An element with one of the mount-point ids encloses only whitespace.
EmptyRootElement(html) ==
    \E i \in 1..Len(html) : \E j \in (i + 1)..Len(html) :
        /\ <<html[i], html[j]>> \in RootElements
        /\ \A k \in (i + 1)..(j - 1) : html[k] \in Whitespace

\* The text of a noscript block includes one of the warnings.
WarningInNoscript(html) ==
    \E i \in 1..Len(html) : \E j \in (i + 1)..Len(html) :
        \E k \in (j + 1)..Len(html) :
            /\ html[i] = "<noscript>"
            /\ html[j] \in NoscriptWarnings
            /\ html[k] = "</noscript>"
            /\ \A m \in (i + 1)..(j - 1) : html[m] # "</noscript>"

\* The characters of a token that are not whitespace.
NonWhitespaceLength(tok) ==
    CASE tok \in Whitespace -> 0
      [] tok \in {"<div id=\"root\">", "<div id=\"app\">", "<div id=\"__next\">",
                  "<main id=\"root\">", "enable javascript"} -> TokenLength(tok) - 1
      [] tok = "javascript is required" -> TokenLength(tok) - 2
      [] OTHER -> TokenLength(tok)

RECURSIVE VisibleLength(_)
VisibleLength(toks) ==
    IF toks = <<>> THEN 0
    ELSE NonWhitespaceLength(Head(toks)) + VisibleLength(Tail(toks))

\* The body element's content without its script blocks has fewer than 200
\* characters that are not whitespace.
FewVisibleCharacters(html) ==
    /\ HasBodyMatch(html)
    /\ VisibleLength(StripScripts(BodyMatch(html), 1)) < BodyThreshold

\* C13: needsBrowser returns, with true or false; it returns true whenever the
\* page has an empty element with id root, app or __next, and false whenever
\* the page has no such element, no noscript block with a warning in its text
\* and no body content of fewer than 200 non-whitespace characters.
C13_RootSignalAndDefault ==
    verdict \notin {"pending", "off"} =>
        /\ verdict \in {"true", "false"}
        /\ EmptyRootElement(page) => verdict = "true"
        /\ (~EmptyRootElement(page) /\ ~WarningInNoscript(page)
                /\ ~FewVisibleCharacters(page)) => verdict = "false"

\* C14: needsBrowser returns true whenever the body element's content, script
\* blocks removed, has fewer than 200 non-whitespace characters.
C14_ShortBodyEscalates ==
    verdict \notin {"pending", "off"} /\ FewVisibleCharacters(page) => verdict = "true"

-----------------------------------------------------------------------------
(* Properties of NormalizerService.normalize *)

\* The list of names normalize's result has for the category, if any.
Listed(category) ==
    IF HasOwn(normalized.technologies, category)
    THEN Get(normalized.technologies, category)
    ELSE <<>>

\* C15: in normalize's result no list holds a name twice, and every list is in
\* ascending order of code units.
C15_ListsSortedNoDuplicates ==
    normalized.done =>
        \A e \in 1..Len(normalized.technologies) :
            LET list == normalized.technologies[e].value
            IN  /\ \A i, j \in 1..Len(list) : i # j => list[i] # list[j]
                /\ \A i \in 1..(Len(list) - 1) : ~StringLess(list[i + 1], list[i])

\* caddy, Zope, caddy in one category come out as Zope, caddy.
C15_Witness ==
    /\ normalized.done
    /\ Len(rawDetections) = 3
    /\ rawDetections[1].name = Chars("caddy")
    /\ rawDetections[2].name = Chars("Zope")
    /\ rawDetections[3].name = Chars("caddy")
    /\ Listed(Chars("web_servers")) = <<Chars("Zope"), Chars("caddy")>>

\* The confidence of the first detection of the name in the category.
FirstConfidence(name, category) ==
    rawDetections[CHOOSE i \in 1..Len(rawDetections) :
        /\ rawDetections[i].name = name
        /\ CategoryOf(rawDetections[i]) = category
        /\ \A j \in 1..(i - 1) :
            ~(rawDetections[j].name = name /\ CategoryOf(rawDetections[j]) = category)
    ].confidence

\* a / b rounded half up to hundredths.
RoundHalfUp(a, b) == (200 * a + b) \div (2 * b)

RECURSIVE ListedSum(_, _)
ListedSum(names, category) ==
    IF names = <<>> THEN 0
    ELSE FirstConfidence(Head(names), category) + ListedSum(Tail(names), category)

\* C16: the confidence of every category of the result is the mean of the
\* confidences of the technologies listed in it, each counted once, rounded
\* half up to two decimals.
C16_MeanRoundedHalfUp ==
    normalized.done =>
        \A e \in 1..Len(normalized.confidence) :
            LET category == normalized.confidence[e].key
            IN  normalized.confidence[e].value =
                    RoundHalfUp(ListedSum(Listed(category), category),
                                  ConfidenceUnit * Len(Listed(category)))

\* C17: rawCount is the length of the list normalize was given, and for the
\* list detect returned that is the number of distinct technologies detected
\* once the implications are resolved.
C17_RawCountIsInputLength ==
    normalized.done =>
        /\ normalized.rawCount = Len(rawDetections)
        /\ normalized.rawCount = Cardinality(Names(detections))
        /\ normalized.rawCount = Cardinality(Closure(database, DirectNames))

\* One direct match and two technologies that are only implied.
C17_Witness ==
    /\ normalized.done
    /\ DirectNames = {"A"}
    /\ Names(detections) = {"A", "B", "C"}
    /\ normalized.rawCount = 3

\* The slug of the first entry of the override table that lists the name.
TableSlug(name) ==
    CATEGORY_MAPPING[CHOOSE i \in 1..Len(CATEGORY_MAPPING) :
        /\ Includes(CATEGORY_MAPPING[i].value, name)
        /\ \A j \in 1..(i - 1) : ~Includes(CATEGORY_MAPPING[j].value, name)].key

\* The raw category in lower case, a whitespace character that follows another
\* dropped and the others turned into underscores.
Collapsed(raw) ==
    LET mark == [i \in 1..Len(raw) |->
                    IF raw[i] \notin WhitespaceChars THEN ToLowerChar(raw[i])
                    ELSE IF i > 1 /\ raw[i - 1] \in WhitespaceChars THEN "drop"
                    ELSE "_"]
        Kept(c) == c # "drop"
    IN  SelectSeq(mark, Kept)

ExpectedSlug(detection) ==
    IF \E i \in 1..Len(CATEGORY_MAPPING) : Includes(CATEGORY_MAPPING[i].value, detection.name)
    THEN TableSlug(detection.name)
    ELSE Collapsed(detection.category)

\* C18: every detection's name is listed under the slug the override table
\* has for the name, whatever its raw category, or else under its raw category
\* in lower case with each run of whitespace replaced by one underscore; and
\* no name is listed under any other slug.
C18_SlugFromTableOrRawCategory ==
    normalized.done =>
        /\ \A i \in 1..Len(rawDetections) :
                Includes(Listed(ExpectedSlug(rawDetections[i])), rawDetections[i].name)
        /\ \A e \in 1..Len(normalized.technologies) :
                \A k \in 1..Len(normalized.technologies[e].value) :
                    \E i \in 1..Len(rawDetections) :
                        /\ rawDetections[i].name = normalized.technologies[e].value[k]
                        /\ ExpectedSlug(rawDetections[i]) = normalized.technologies[e].key

\* HubSpot of raw category CMS is under marketing, caddy of "Web Servers" and
\* Zope of "WEB \tServers" are under web_servers.
C18_Witness ==
    /\ normalized.done
    /\ rawDetections = << Detection("HubSpot", "CMS", 8),
                          Detection("Zope", "WEB \tServers", 4),
                          Detection("caddy", "Web Servers", 8) >>
    /\ Listed(Chars("marketing")) = <<Chars("HubSpot")>>
    /\ Listed(Chars("web_servers")) = <<Chars("Zope"), Chars("caddy")>>

\* The categories of the detections in the order they are first seen.
RECURSIVE FirstSeen(_, _)
FirstSeen(input, seen) ==
    IF input = <<>> THEN seen
    ELSE FirstSeen(Tail(input),
            IF Includes(seen, CategoryOf(Head(input))) THEN seen
            ELSE Append(seen, CategoryOf(Head(input))))

\* C19: the technologies and the confidence mappings of the result enumerate
\* their categories in the order in which the categories were first seen.
C19_CategoriesInFirstSeenOrder ==
    normalized.done =>
        /\ ObjectKeys(normalized.technologies) = FirstSeen(rawDetections, <<>>)
        /\ ObjectKeys(normalized.confidence) = FirstSeen(rawDetections, <<>>)

-----------------------------------------------------------------------------
(* Properties of DetectorService.addDetection *)

\* The name the store's category table has for the id, or Miscellaneous.
DisplayName(db, id) ==
    IF \E i \in 1..Len(db.categories) : db.categories[i].key = id
    THEN db.categories[CHOOSE i \in 1..Len(db.categories) :
                            db.categories[i].key = id].value.name
    ELSE "Miscellaneous"

-----------------------------------------------------------------------------
(* C21: forceBrowser *)

\* C21: a request whose body sets forceBrowser to true is answered with a
\* result of tier 3, whatever needsBrowser says of the HTTP tier's HTML.
C21_ForceBrowserTier3 ==
    \A r \in Requests :
        (req[r].forceBrowser /\ req[r].pc = "resolved") => req[r].result = 3

-----------------------------------------------------------------------------
(* C22: the store and the snapshot are read only *)

\* C22: no step of detect, processImplications or normalize changes the loaded
\* store or the snapshot of the request at hand, however many requests have
\* been served: the store changes only when it is loaded, and crawlResult only
\* when the next request brings its own.
C22_StoreAndSnapshotReadOnly ==
    [][ /\ dpc # "boot" => database' = database
        /\ dpc \in {"ready", "implications"} \/ (dpc = "done" /\ ~normalized.done)
                => crawlResult' = crawlResult ]_vars

\* A second request has been detected and normalized, with implied detections.
C22_Witness ==
    /\ dpc = "done"
    /\ normalized.done
    /\ passes > 1
    /\ normalized.rawCount > 1
    /\ database = payload.value

-----------------------------------------------------------------------------
(* C23: what processImplications adds and what it leaves alone *)

\* C23: a pass of processImplications leaves every detection already present
\* as it was, in its place, and every detection it adds is of a name not yet
\* present, with source "implied", confidence 1 and, if its rule has category
\* ids, the name the category table has for the first of them (Miscellaneous
\* when the table lacks that id).
C23_ImpliedDetectionsAdded ==
    [][ dpc = "implications" /\ dpc' = "implications" =>
        /\ Len(detections') >= Len(detections)
        /\ \A i \in 1..Len(detections) : detections'[i] = detections[i]
        /\ \A j \in (Len(detections) + 1)..Len(detections') :
            /\ ~MapHas(detections, detections'[j].name)
            /\ detections'[j].source = "implied"
            /\ detections'[j].confidence = 1
            /\ Len(RuleOf(detections'[j].name).cats) > 0 =>
                    detections'[j].category =
                        DisplayName(database, RuleOf(detections'[j].name).cats[1]) ]_vars

\* B and C are matched in the HTML, C implies B and B implies A: B keeps its
\* source html, and A is added as implied with its own category Web Servers,
\* not B's Miscellaneous.
C23_Witness ==
    /\ dpc = "implications"
    /\ passes >= 1
    /\ "B" \in ImpliedSet(database, "C")
    /\ "A" \in ImpliedSet(database, "B")
    /\ \E a, b, c \in 1..Len(detections) :
        /\ detections[a].name = "A" /\ detections[a].source = "implied"
        /\ detections[a].category = "Web Servers" /\ detections[a].confidence = 1
        /\ detections[b].name = "B" /\ detections[b].source = "html"
        /\ detections[b].category = "Miscellaneous"
        /\ detections[c].name = "C" /\ detections[c].source = "html"

-----------------------------------------------------------------------------
(* C24: contexts are closed *)

\* C24: once fetchWithBrowser has returned or thrown for a request, the
\* context it created for the request, if it created one, is closed.
C24_ContextClosedOnEveryPath ==
    \A r \in Requests :
        (req[r].pc \in {"returned", "failed", "detecting", "resolved", "rejected"}
         /\ req[r].ctx # 0)
            => contexts[req[r].ctx].state = "closed"

-----------------------------------------------------------------------------
(* C25: one category per technology *)

\* The detections given to normalize have distinct names, as those of detect.
DistinctNames ==
    \A i, j \in 1..Len(rawDetections) :
        rawDetections[i].name = rawDetections[j].name => i = j

\* Every name is in the list of exactly one category, which for a name of the
\* override table is the first category of the table that lists it; the
\* lengths of the lists add up to rawCount; the technologies and the
\* confidence mappings have the same categories, none with an empty list.
OneListPerName ==
    LET lists == [k \in 1..Len(normalized.technologies) |->
                    normalized.technologies[k].value]
        Holding(name) == {k \in 1..Len(lists) : \E j \in 1..Len(lists[k]) : lists[k][j] = name}
    IN  /\ \A i \in 1..Len(rawDetections) :
            /\ Cardinality(Holding(rawDetections[i].name)) = 1
            /\ (\E c \in 1..Len(CATEGORY_MAPPING) :
                    Includes(CATEGORY_MAPPING[c].value, rawDetections[i].name))
                => \A k \in Holding(rawDetections[i].name) :
                        normalized.technologies[k].key = TableSlug(rawDetections[i].name)
        /\ Len(Flatten(lists)) = normalized.rawCount
        /\ \A k \in 1..Len(lists) : lists[k] # <<>>
        /\ \A k, l \in 1..Len(lists) :
                normalized.technologies[k].key = normalized.technologies[l].key => k = l
        /\ {normalized.technologies[k].key : k \in 1..Len(normalized.technologies)}
                = {normalized.confidence[k].key : k \in 1..Len(normalized.confidence)}

\* C25 as stated: for detections of distinct names every name is in exactly
\* one category list, the first listed category winning, the lengths add up to
\* rawCount, and the two mappings have the same set of categories, which is
\* not empty.
C25_SameNonEmptyCategorySet ==
    (normalized.done /\ DistinctNames) =>
        /\ OneListPerName
        /\ normalized.technologies # <<>>
        /\ normalized.confidence # <<>>

\* C25, amended: the same, with the set of categories not empty when there is
\* at least one detection; for no detections both mappings are empty.
C25_OneCategoryPerTechnology ==
    (normalized.done /\ DistinctNames) =>
        /\ OneListPerName
        /\ rawDetections # <<>> =>
                normalized.technologies # <<>> /\ normalized.confidence # <<>>
        /\ rawDetections = <<>> =>
                normalized.technologies = <<>> /\ normalized.confidence = <<>>

\* HubSpot, which the table lists under marketing and under crm, is under
\* marketing only; Nginx is under server and Zope under its raw category.
C25_Witness ==
    /\ normalized.done
    /\ rawDetections = << Detection("Zope", "CMS", 2), Detection("HubSpot", "CMS", 8),
                          Detection("Nginx", "Web Servers", 8) >>
    /\ Listed(Chars("marketing")) = <<Chars("HubSpot")>>
    /\ ~HasOwn(normalized.technologies, Chars("crm"))
    /\ Listed(Chars("server")) = <<Chars("Nginx")>>
    /\ normalized.rawCount = 3

=============================================================================
